---- MODULE Spec2Model ----
(***************************************************************************)
(* A model of schema_salad's Python code generator (python_codegen.py):    *)
(* the loader catalog (collected_types) filled by type_loader and the      *)
(* field wrappers, the epilogue that emits the catalog, and the fromDoc    *)
(* routine that begin_class / declare_id_field / declare_field / end_class *)
(* write, executed on bounded documents.                                   *)
(*                                                                         *)
(* Python values are written as follows.  Optional[X] is a sequence of     *)
(* length at most one (<<>> is None).  A type declaration is a record      *)
(* whose field `py` says which isinstance branch it takes: "str", "list"   *)
(* (MutableSequence) or "map" (MutableMapping).  Strings are TLA+ strings,  *)
(* joined with \o exactly as the format strings of the source join them.   *)
(***************************************************************************)
EXTENDS Integers, Sequences, FiniteSets, TLC

VARIABLES
    pc,               \* where the driver is: "start", "open", "done"
    collected_types,  \* CodeGenBase.collected_types, in insertion order
    vocab,            \* CodeGenBase.vocab, a set of [k, v] pairs
    out,              \* what has been written to self.out (structured)
    raised,           \* the exception the last call ended with, "" if none
    memo,             \* <<>> or <<c>>: one call that created a catalog entry
    current_class_is_abstract,  \* PythonCodeGen.current_class_is_abstract
    serializer,       \* PythonCodeGen.serializer, the buffered save() routine
    idfield,          \* PythonCodeGen.idfield
    cls,              \* the record the driver is emitting and how far it is
    uuids,            \* how many times the generated code has called uuid4()
    rt                \* the last run of the generated fromDoc routine

vars ==
    <<pc, collected_types, vocab, out, raised, memo, current_class_is_abstract,
      serializer, idfield, cls, uuids, rt>>

catalogVars == <<collected_types, vocab, memo>>

emitterVars == <<current_class_is_abstract, serializer, idfield, cls>>

runVars == <<uuids, rt>>

(***************************************************************************)
(* Bounds of the model.                                                    *)
(***************************************************************************)
MaxTypes == 2      \* catalog entries beyond the primitives

(***************************************************************************)
(* Small helpers over sequences and Python's str().                        *)
(***************************************************************************)
RECURSIVE Join(_, _)
Join(sep, s) ==
    IF Len(s) = 0 THEN ""
    ELSE IF Len(s) = 1 THEN s[1]
    ELSE s[1] \o sep \o Join(sep, Tail(s))

RECURSIVE Dedup(_)
Dedup(s) ==
    IF Len(s) = 0 THEN <<>>
    ELSE LET r == Dedup(SubSeq(s, 1, Len(s) - 1))
             x == s[Len(s)]
         IN IF \E i \in 1..Len(r) : r[i] = x THEN r ELSE Append(r, x)

StrBool(b) == IF b THEN "True" ELSE "False"

StrOptInt(o) == IF Len(o) = 0 THEN "None" ELSE ToString(o[1])

StrOptStr(o) == IF Len(o) = 0 THEN "None" ELSE o[1]

Range(s) == {s[i] : i \in 1..Len(s)}

(***************************************************************************)
(* Names.  schema.avro_field_name and schema.shortname keep what follows   *)
(* the last '#' or '/' of a URI; on the names used here that changes only  *)
(* the qualified Expression type.                                          *)
(***************************************************************************)
ExpressionUri == "https://w3id.org/cwl/cwl#Expression"

avro_field_name(name) == IF name = ExpressionUri THEN "Expression" ELSE name

shortname(name) == IF name = ExpressionUri THEN "Expression" ELSE name

StripAnon(avn) ==
    CASE avn = "anon.A" -> "A"
      [] avn = "anon.B" -> "B"
      [] OTHER -> avn

safe_name(name) ==
    LET avn == StripAnon(avro_field_name(name))
    IN IF avn \in {"class", "in"} THEN avn \o "_" ELSE avn

(***************************************************************************)
(* TypeDef and the primitives.  `refs` lists the loader names that were    *)
(* formatted into `init`, in the order they occur there.                   *)
(***************************************************************************)
TypeDef(name, init, is_uri, scoped_id, ref_scope, abstract, refs) ==
    [name |-> name, init |-> init, is_uri |-> is_uri, scoped_id |-> scoped_id,
     ref_scope |-> ref_scope, abstract |-> abstract, refs |-> refs]

PlainTypeDef(name, init, refs) ==
    TypeDef(name, init, FALSE, FALSE, <<0>>, FALSE, refs)

string_type_def == PlainTypeDef("strtype", "_PrimitiveLoader(str)", <<>>)
int_type_def == PlainTypeDef("inttype", "_PrimitiveLoader(int)", <<>>)
float_type_def == PlainTypeDef("floattype", "_PrimitiveLoader(float)", <<>>)
bool_type_def == PlainTypeDef("booltype", "_PrimitiveLoader(bool)", <<>>)
null_type_def == PlainTypeDef("None_type", "_PrimitiveLoader(type(None))", <<>>)
any_type_def == PlainTypeDef("Any_type", "_AnyLoader()", <<>>)

PrimKeys ==
    <<"http://www.w3.org/2001/XMLSchema#string",
      "http://www.w3.org/2001/XMLSchema#int",
      "http://www.w3.org/2001/XMLSchema#long",
      "http://www.w3.org/2001/XMLSchema#float",
      "http://www.w3.org/2001/XMLSchema#double",
      "http://www.w3.org/2001/XMLSchema#boolean",
      "https://w3id.org/cwl/salad#null",
      "https://w3id.org/cwl/salad#Any",
      "string", "int", "long", "float", "double", "boolean", "null", "Any">>

prims(key) ==
    CASE key \in {"http://www.w3.org/2001/XMLSchema#string", "string"} -> string_type_def
      [] key \in {"http://www.w3.org/2001/XMLSchema#int", "int",
                  "http://www.w3.org/2001/XMLSchema#long", "long"} -> int_type_def
      [] key \in {"http://www.w3.org/2001/XMLSchema#float", "float",
                  "http://www.w3.org/2001/XMLSchema#double", "double"} -> float_type_def
      [] key \in {"http://www.w3.org/2001/XMLSchema#boolean", "boolean"} -> bool_type_def
      [] key \in {"https://w3id.org/cwl/salad#null", "null"} -> null_type_def
      [] key \in {"https://w3id.org/cwl/salad#Any", "Any"} -> any_type_def

(***************************************************************************)
(* The catalog.  declare_type interns by name: an existing entry of that   *)
(* name is returned, otherwise the new one is appended and returned.       *)
(***************************************************************************)
HasName(ct, name) == \E i \in 1..Len(ct) : ct[i].name = name

Lookup(ct, name) == ct[CHOOSE i \in 1..Len(ct) : ct[i].name = name]

IndexOf(ct, name) == CHOOSE i \in 1..Len(ct) : ct[i].name = name

declare_type(ct, td) ==
    IF HasName(ct, td.name)
    THEN [ct |-> ct, td |-> Lookup(ct, td.name)]
    ELSE [ct |-> Append(ct, td), td |-> td]

add_vocab(vc, k, v) == {p \in vc : p.k # k} \cup {[k |-> k, v |-> v]}

RECURSIVE add_vocab_all(_, _)
add_vocab_all(vc, syms) ==
    IF Len(syms) = 0 THEN vc
    ELSE add_vocab_all(add_vocab(vc, shortname(syms[1]), syms[1]), Tail(syms))

RECURSIVE DeclareAll(_, _)
DeclareAll(ct, tds) ==
    IF Len(tds) = 0 THEN ct
    ELSE DeclareAll(declare_type(ct, tds[1]).ct, Tail(tds))

PrimValues == [i \in 1..Len(PrimKeys) |-> prims(PrimKeys[i])]

NPrims == Len(DeclareAll(<<>>, PrimValues))

(***************************************************************************)
(* type_loader.  The result carries the catalog and vocabulary as the call *)
(* leaves them, also when it raises: the entries interned before the       *)
(* exception stay interned.                                                *)
(***************************************************************************)
NoTypeDef == PlainTypeDef("", "", <<>>)

Returned(td, ct, vc) == [ok |-> TRUE, err |-> "", td |-> td, ct |-> ct, vc |-> vc]

Raised(err, ct, vc) == [ok |-> FALSE, err |-> err, td |-> NoTypeDef, ct |-> ct, vc |-> vc]

union_sub_names_repeated(names) == names

union_sub_names(names) == Dedup(names)

union_type_def(sub_names) ==
    PlainTypeDef("union_of_" \o Join("_or_", sub_names),
                 "_UnionLoader((" \o Join(", ", sub_names) \o ",))",
                 sub_names)

array_type_def(i) ==
    PlainTypeDef("array_of_" \o i.name, "_ArrayLoader(" \o i.name \o ")", <<i.name>>)

enum_type_def(name, symbols) ==
    PlainTypeDef(safe_name(name) \o "Loader",
                 "_EnumLoader((\"" \o
                     Join("\", \"", [k \in 1..Len(symbols) |-> safe_name(symbols[k])])
                     \o "\",))",
                 <<>>)

record_type_def(name, abstract) ==
    TypeDef(safe_name(name) \o "Loader",
            "_RecordLoader(" \o safe_name(name) \o ")",
            FALSE, FALSE, <<0>>, abstract, <<>>)

expression_type_def(name) ==
    PlainTypeDef(safe_name(name) \o "Loader", "_ExpressionLoader(str)", <<>>)

declare_union(ct, sub_names) == declare_type(ct, union_type_def(sub_names))

declare_array_undeclared(ct, i) == [ct |-> ct, td |-> array_type_def(i)]

declare_array(ct, i) == declare_type(ct, array_type_def(i))

collected_type_unsafe(ct, name) ==
    IF HasName(ct, name \o "Loader")
    THEN [found |-> TRUE, td |-> Lookup(ct, name \o "Loader")]
    ELSE [found |-> FALSE, td |-> NoTypeDef]

collected_type(ct, name) ==
    IF HasName(ct, safe_name(name) \o "Loader")
    THEN [found |-> TRUE, td |-> Lookup(ct, safe_name(name) \o "Loader")]
    ELSE [found |-> FALSE, td |-> NoTypeDef]

RECURSIVE type_loader(_, _, _)
RECURSIVE type_loader_each(_, _, _, _)

\* [self.type_loader(i).name for i in type_declaration], left to right
type_loader_each(alts, ct, vc, names) ==
    IF Len(alts) = 0
    THEN [ok |-> TRUE, err |-> "", names |-> names, ct |-> ct, vc |-> vc]
    ELSE LET r == type_loader(alts[1], ct, vc)
         IN IF r.ok
            THEN type_loader_each(Tail(alts), r.ct, r.vc, Append(names, r.td.name))
            ELSE [ok |-> FALSE, err |-> r.err, names |-> names, ct |-> r.ct, vc |-> r.vc]

type_loader(d, ct, vc) ==
    IF d.py = "list"
    THEN LET r == type_loader_each(d.alts, ct, vc, <<>>)
         IN IF ~r.ok THEN Raised(r.err, r.ct, r.vc)
            ELSE LET dt == declare_union(r.ct, union_sub_names(r.names))
                 IN Returned(dt.td, dt.ct, r.vc)
    ELSE IF d.py = "map"
    THEN IF d.type \in {"array", "https://w3id.org/cwl/salad#array"}
         THEN LET r == type_loader(d.items, ct, vc)
              IN IF ~r.ok THEN r
                 ELSE LET dt == declare_array(r.ct, r.td)
                      IN Returned(dt.td, dt.ct, r.vc)
         ELSE IF d.type \in {"enum", "https://w3id.org/cwl/salad#enum"}
         THEN LET dt == declare_type(ct, enum_type_def(d.name, d.symbols))
              IN Returned(dt.td, dt.ct, add_vocab_all(vc, d.symbols))
         ELSE IF d.type \in {"record", "https://w3id.org/cwl/salad#record"}
         THEN LET dt == declare_type(ct, record_type_def(d.name, d.abstract))
              IN Returned(dt.td, dt.ct, vc)
         ELSE Raised("SchemaException", ct, vc)
    ELSE IF d.name \in Range(PrimKeys)
    THEN Returned(prims(d.name), ct, vc)
    ELSE IF d.name \in {"Expression", ExpressionUri}
    THEN LET dt == declare_type(ct, expression_type_def(d.name))
         IN Returned(dt.td, dt.ct, vc)
    ELSE LET c == collected_type(ct, d.name)
         IN IF c.found THEN Returned(c.td, ct, vc) ELSE Raised("KeyError", ct, vc)

(***************************************************************************)
(* The field wrappers.                                                     *)
(***************************************************************************)
uri_type_def(inner, scoped_id, vocab_term, ref_scope) ==
    TypeDef("uri_" \o inner.name \o "_" \o StrBool(scoped_id) \o "_"
                \o StrBool(vocab_term) \o "_" \o StrOptInt(ref_scope),
            "_URILoader(" \o inner.name \o ", " \o StrBool(scoped_id) \o ", "
                \o StrBool(vocab_term) \o ", " \o StrOptInt(ref_scope) \o ")",
            TRUE, scoped_id, ref_scope, FALSE, <<inner.name>>)

idmap_type_def(field, inner, map_subject, map_predicate) ==
    PlainTypeDef("idmap_" \o safe_name(field) \o "_" \o inner.name,
                 "_IdMapLoader(" \o inner.name \o ", '" \o map_subject \o "', '"
                     \o StrOptStr(map_predicate) \o "')",
                 <<inner.name>>)

typedsl_type_def(inner, ref_scope) ==
    PlainTypeDef("typedsl_" \o safe_name(inner.name) \o "_" \o StrOptInt(ref_scope),
                 "_TypeDSLLoader(" \o safe_name(inner.name) \o ", "
                     \o StrOptInt(ref_scope) \o ")",
                 <<safe_name(inner.name)>>)

secondaryfilesdsl_type_def(inner) ==
    PlainTypeDef("secondaryfilesdsl_" \o inner.name,
                 "_SecondaryDSLLoader(" \o inner.name \o ")",
                 <<inner.name>>)

uri_loader(ct, inner, scoped_id, vocab_term, ref_scope) ==
    declare_type(ct, uri_type_def(inner, scoped_id, vocab_term, ref_scope))

idmap_loader(ct, field, inner, map_subject, map_predicate) ==
    declare_type(ct, idmap_type_def(field, inner, map_subject, map_predicate))

typedsl_loader(ct, inner, ref_scope) ==
    declare_type(ct, typedsl_type_def(inner, ref_scope))

secondaryfilesdsl_loader(ct, inner) ==
    declare_type(ct, secondaryfilesdsl_type_def(inner))

(***************************************************************************)
(* The declarations and wrapper parameters the calls are drawn from.       *)
(***************************************************************************)
StrDecl(s) == [py |-> "str", name |-> s]

ListDecl(alts) == [py |-> "list", alts |-> alts]

ArrayDecl(items) == [py |-> "map", type |-> "array", items |-> items]

RecordDecl(type, name, abstract) ==
    [py |-> "map", type |-> type, name |-> name, abstract |-> abstract]

EnumDecl(name, symbols) ==
    [py |-> "map", type |-> "enum", name |-> name, symbols |-> symbols]

ScalarDecls ==
    {StrDecl(s) : s \in {"string", "http://www.w3.org/2001/XMLSchema#string", "null",
                         "Expression", ExpressionUri, "A", "B", "anon.A", "E"}}

RecordDecls ==
    {RecordDecl("record", "A", a) : a \in BOOLEAN}
        \cup {RecordDecl("https://w3id.org/cwl/salad#record", "B", FALSE)}

EnumDecls == {EnumDecl("E", <<"x", "in">>)}

OtherDecls == {[py |-> "map", type |-> "map"]}

UnionAlts == {StrDecl("string"), StrDecl("null"), StrDecl("A")}

\* unions of one alternative, of two, and of three with the first repeated
UnionDecls ==
    {ListDecl(<<a>>) : a \in UnionAlts}
        \cup {ListDecl(<<a, b>>) : a \in UnionAlts, b \in UnionAlts}
        \cup {ListDecl(<<a, b, a>>) : a \in UnionAlts, b \in UnionAlts}

ArrayItems ==
    {StrDecl("string"), StrDecl("A"), StrDecl("B"),
     ListDecl(<<StrDecl("string"), StrDecl("null")>>),
     ListDecl(<<StrDecl("null"), StrDecl("string")>>),
     ListDecl(<<StrDecl("A"), StrDecl("string")>>)}

ArrayDecls ==
    {ArrayDecl(d) : d \in ArrayItems}
        \cup {[py |-> "map", type |-> "https://w3id.org/cwl/salad#array",
               items |-> StrDecl("null")]}

TypeDecls ==
    ScalarDecls \cup RecordDecls \cup EnumDecls \cup OtherDecls \cup UnionDecls
        \cup ArrayDecls

\* the declarations resolved between wrapper calls
WrappedDecls == RecordDecls \cup {StrDecl("string"), StrDecl("B")}

\* what a wrapper is applied to: the string loader or any non-primitive loader
InnerTypes(ct) == {t \in Range(ct) : t.name = "strtype" \/ IndexOf(ct, t.name) > NPrims}

\* wrapper parameters: one base choice, and one more differing in each parameter
UriParams ==
    {[scoped_id |-> FALSE, vocab_term |-> FALSE, ref_scope |-> <<>>],
     [scoped_id |-> TRUE, vocab_term |-> FALSE, ref_scope |-> <<>>],
     [scoped_id |-> FALSE, vocab_term |-> TRUE, ref_scope |-> <<>>],
     [scoped_id |-> FALSE, vocab_term |-> FALSE, ref_scope |-> <<1>>]}

IdmapParams ==
    {[field |-> "f", map_subject |-> "id", map_predicate |-> <<>>],
     [field |-> "g", map_subject |-> "id", map_predicate |-> <<>>],
     [field |-> "f", map_subject |-> "name", map_predicate |-> <<>>],
     [field |-> "f", map_subject |-> "id", map_predicate |-> <<"type">>]}

RefScopes == {<<>>, <<1>>}

NoRun == [ran |-> FALSE]

NoClass == [begun |-> FALSE,
            spec |-> [classname |-> "", abstract |-> FALSE, field_names |-> <<>>,
                      idfield |-> "", optional_fields |-> {}, subscope |-> <<>>],
            id_declared |-> FALSE, next |-> 1, ended |-> FALSE, done |-> <<>>]

(***************************************************************************)
(* The calls of one compilation: prologue, then type_loader and the        *)
(* wrappers in any order, then epilogue.                                   *)
(***************************************************************************)
Init ==
    /\ pc = "start"
    /\ collected_types = <<>>
    /\ vocab = {}
    /\ out = <<>>
    /\ raised = ""
    /\ memo = <<>>
    /\ current_class_is_abstract = FALSE
    /\ serializer = <<>>
    /\ idfield = ""
    /\ cls = NoClass
    /\ uuids = 0
    /\ rt = NoRun

\* memo[1] is the first call that added a composite loader (a union, an array
\* or a wrapper) to the catalog; memo[1].later is the latest call after it that
\* is related to it: the same declaration again, a union of the same set of
\* alternatives, or the same wrapper.
IsComposite(call) ==
    \/ call.op # "type_loader"
    \/ call.decl.py = "list"
    \/ /\ call.decl.py = "map"
       /\ call.decl.type \in {"array", "https://w3id.org/cwl/salad#array"}

Related(c1, c2) ==
    /\ c1.op = c2.op
    /\ c1.op = "type_loader" =>
          \/ c1.decl = c2.decl
          \/ /\ c1.decl.py = "list"
             /\ c2.decl.py = "list"
             /\ Range(c1.decl.alts) = Range(c2.decl.alts)

Remember(call, ok, td, asked, ct) ==
    memo' =
        IF memo = <<>>
        THEN IF ok /\ IsComposite(call) /\ Len(ct) > Len(collected_types)
             THEN <<[call |-> call, name |-> td.name, init |-> td.init,
                     pos |-> IF HasName(ct, td.name) THEN IndexOf(ct, td.name) ELSE 0,
                     later |-> <<>>]>>
             ELSE <<>>
        ELSE IF Related(memo[1].call, call)
        THEN <<[memo[1] EXCEPT !.later =
                    <<[call |-> call, ok |-> ok, name |-> td.name, init |-> td.init,
                       asked |-> asked.init]>>]>>
        ELSE memo

Prologue ==
    /\ pc = "start"
    /\ out' = out \o <<[op |-> "header"], [op |-> "support"], [op |-> "parser_info"]>>
    /\ collected_types' = DeclareAll(collected_types, PrimValues)
    /\ pc' = "open"
    /\ raised' = ""
    /\ UNCHANGED <<vocab, memo, emitterVars, runVars>>

TypeLoader(d) ==
    /\ pc = "open"
    /\ LET r == type_loader(d, collected_types, vocab)
       IN /\ Len(r.ct) <= NPrims + MaxTypes
          /\ collected_types' = r.ct
          /\ vocab' = r.vc
          /\ raised' = r.err
          /\ Remember([op |-> "type_loader", decl |-> d], r.ok, r.td, r.td, r.ct)
    /\ UNCHANGED <<pc, out, emitterVars, runVars>>

Wrapped(call, asked, dt) ==
    /\ Len(dt.ct) <= NPrims + MaxTypes
    /\ collected_types' = dt.ct
    /\ raised' = ""
    /\ Remember(call, TRUE, dt.td, asked, dt.ct)
    /\ UNCHANGED <<pc, vocab, out, emitterVars, runVars>>

UriLoader(inner, scoped_id, vocab_term, ref_scope) ==
    /\ pc = "open"
    /\ Wrapped([op |-> "uri_loader", inner |-> inner.name, scoped_id |-> scoped_id,
                vocab_term |-> vocab_term, ref_scope |-> ref_scope],
               uri_type_def(inner, scoped_id, vocab_term, ref_scope),
               uri_loader(collected_types, inner, scoped_id, vocab_term, ref_scope))

IdmapLoader(field, inner, map_subject, map_predicate) ==
    /\ pc = "open"
    /\ Wrapped([op |-> "idmap_loader", field |-> field, inner |-> inner.name,
                map_subject |-> map_subject, map_predicate |-> map_predicate],
               idmap_type_def(field, inner, map_subject, map_predicate),
               idmap_loader(collected_types, field, inner, map_subject, map_predicate))

TypedslLoader(inner, ref_scope) ==
    /\ pc = "open"
    /\ Wrapped([op |-> "typedsl_loader", inner |-> inner.name, ref_scope |-> ref_scope],
               typedsl_type_def(inner, ref_scope),
               typedsl_loader(collected_types, inner, ref_scope))

SecondaryfilesdslLoader(inner) ==
    /\ pc = "open"
    /\ Wrapped([op |-> "secondaryfilesdsl_loader", inner |-> inner.name],
               secondaryfilesdsl_type_def(inner),
               secondaryfilesdsl_loader(collected_types, inner))

RECURSIVE emit_loaders(_)
emit_loaders(ct) ==
    IF Len(ct) = 0 THEN <<>>
    ELSE LET t == ct[1]
         IN (IF ~t.abstract
             THEN <<[op |-> "assign", name |-> t.name, init |-> t.init, refs |-> t.refs]>>
             ELSE <<>>) \o emit_loaders(Tail(ct))

Epilogue(root_loader) ==
    /\ pc = "open"
    /\ out' = out \o <<[op |-> "_vocab", table |-> vocab],
                        [op |-> "_rvocab", table |-> {[k |-> p.v, v |-> p.k] : p \in vocab}]>>
                  \o emit_loaders(collected_types)
                  \o <<[op |-> "load_document", name |-> root_loader.name]>>
    /\ pc' = "done"
    /\ raised' = ""
    /\ UNCHANGED <<catalogVars, emitterVars, runVars>>

\* the root loader is the loader declared last
RootLoaders(ct) == IF Len(ct) = 0 THEN {} ELSE {ct[Len(ct)]}

Next ==
    \/ Prologue
    \/ \E d \in TypeDecls : TypeLoader(d)
    \/ \E root_loader \in RootLoaders(collected_types) : Epilogue(root_loader)

Spec == Init /\ [][Next]_vars

WrapNext ==
    \/ Prologue
    \/ \E d \in WrappedDecls : TypeLoader(d)
    \/ \E inner \in InnerTypes(collected_types), p \in UriParams :
            UriLoader(inner, p.scoped_id, p.vocab_term, p.ref_scope)
    \/ \E inner \in InnerTypes(collected_types), p \in IdmapParams :
            IdmapLoader(p.field, inner, p.map_subject, p.map_predicate)
    \/ \E inner \in InnerTypes(collected_types), ref_scope \in RefScopes :
            TypedslLoader(inner, ref_scope)
    \/ \E inner \in InnerTypes(collected_types) : SecondaryfilesdslLoader(inner)
    \/ \E root_loader \in RootLoaders(collected_types) : Epilogue(root_loader)

WrapSpec == Init /\ [][WrapNext]_vars

(***************************************************************************)
(* Properties of the catalog.                                              *)
(***************************************************************************)
Entries(ct, name) == {i \in 1..Len(ct) : ct[i].name = name}

MemoIsTypeLoader == memo # <<>> /\ memo[1].call.op = "type_loader"

ResolvedAgain ==
    /\ MemoIsTypeLoader
    /\ memo[1].later # <<>>
    /\ memo[1].later[1].call.decl = memo[1].call.decl

\* C1 (idempotent interning): once a composite shape has been resolved, every
\* later type_loader call for the same declaration returns a descriptor of the
\* same name, and so would a call made now without changing the catalog; the
\* catalog holds exactly one entry of that name, at the position where the
\* first call put it.
C1_IdempotentInterning ==
    MemoIsTypeLoader =>
        LET m == memo[1]
            r == type_loader(m.call.decl, collected_types, vocab)
        IN /\ ResolvedAgain => m.later[1].ok /\ m.later[1].name = m.name
           /\ r.ok /\ r.td.name = m.name /\ r.ct = collected_types
           /\ Cardinality(Entries(collected_types, m.name)) = 1
           /\ m.pos \in 1..Len(collected_types)
           /\ collected_types[m.pos].name = m.name

\* witness of C1: an array of a union of two alternatives was resolved, and
\* the same declaration was resolved a second time
C1_Witness ==
    /\ ResolvedAgain
    /\ memo[1].later[1].ok
    /\ memo[1].call.decl.py = "map"
    /\ memo[1].call.decl.items.py = "list"
    /\ Len(memo[1].call.decl.items.alts) = 2

SameAlternativesAgain ==
    /\ MemoIsTypeLoader
    /\ memo[1].call.decl.py = "list"
    /\ memo[1].later # <<>>
    /\ memo[1].later[1].ok
    /\ memo[1].later[1].call.decl # memo[1].call.decl

\* the loader names of the alternatives of a union declaration, as the list
\* comprehension of type_loader computes them in the current catalog
AltNames(d) == type_loader_each(d.alts, collected_types, vocab, <<>>).names

\* C2 as stated (deterministic union naming): two union declarations that list
\* the same set of alternatives, in whatever order, get the identical name.
C2_OrderInsensitiveName ==
    SameAlternativesAgain => memo[1].later[1].name = memo[1].name

\* C2 as amended: two union declarations that list the same set of
\* alternatives get the identical name, and share one catalog entry, exactly
\* when the loader names of their alternatives, deduplicated in order of first
\* occurrence, are the same sequence; otherwise their names differ.
C2_FirstOccurrenceOrderName ==
    SameAlternativesAgain =>
        LET m == memo[1]
            l == m.later[1]
        IN IF Dedup(AltNames(m.call.decl)) = Dedup(AltNames(l.call.decl))
           THEN /\ l.name = m.name
                /\ Cardinality(Entries(collected_types, m.name)) = 1
           ELSE l.name # m.name

\* witness of C2: [a, b, a] resolved after [a, b], or the other way round
C2_Witness ==
    /\ SameAlternativesAgain
    /\ Len(memo[1].call.decl.alts) # Len(memo[1].later[1].call.decl.alts)
    /\ Cardinality(Range(memo[1].call.decl.alts)) = 2
    /\ Dedup(AltNames(memo[1].call.decl)) = Dedup(AltNames(memo[1].later[1].call.decl))

Assigned == SelectSeq(out, LAMBDA st : st.op = "assign")

NonAbstract(ct) == SelectSeq(ct, LAMBDA t : ~t.abstract)

\* C7 (epilogue dependency order): the epilogue emits every non-abstract loader
\* of the catalog exactly once, in catalog order, and every loader name that an
\* emitted constructor expression refers to was emitted before it.
C7_EpilogueDependencyOrder ==
    pc = "done" =>
        /\ Len(Assigned) = Len(NonAbstract(collected_types))
        /\ \A i \in 1..Len(Assigned) :
              /\ Assigned[i].name = NonAbstract(collected_types)[i].name
              /\ Assigned[i].init = NonAbstract(collected_types)[i].init
              /\ \A k \in 1..Len(Assigned[i].refs) :
                    \E j \in 1..(i - 1) : Assigned[j].name = Assigned[i].refs[k]

NamedTypes == {"A", "B", "E", "anon.A"}

RecordOrEnumTypeDefs ==
    {record_type_def(d.name, d.abstract) : d \in RecordDecls}
        \cup {enum_type_def(d.name, d.symbols) : d \in EnumDecls}

Interned(n) ==
    \E i \in 1..Len(collected_types) :
        /\ collected_types[i].name = safe_name(n) \o "Loader"
        /\ collected_types[i] \in RecordOrEnumTypeDefs

Refers(n) ==
    {StrDecl(n), ArrayDecl(StrDecl(n)), ListDecl(<<StrDecl("string"), StrDecl(n)>>),
     ArrayDecl(ListDecl(<<StrDecl(n), StrDecl("null")>>))}

\* C8 (forward-reference failure): a scalar type name that is neither a
\* primitive nor Expression resolves, alone or inside a union or an array, if
\* and only if a record or enum loader of that name has been interned by an
\* earlier call; otherwise type_loader raises (KeyError, the unresolved type
\* reference).
C8_ForwardReference ==
    pc = "open" =>
        \A n \in NamedTypes : \A d \in Refers(n) :
            LET r == type_loader(d, collected_types, vocab)
            IN /\ r.ok <=> Interned(n)
               /\ ~r.ok => r.err = "KeyError"
               /\ (r.ok /\ d.py = "str") =>
                     /\ r.ct = collected_types
                     /\ r.td.name = safe_name(n) \o "Loader"
                     /\ r.td \in RecordOrEnumTypeDefs

\* witness of C8: a call has just failed on a name that is not interned, while
\* another record is interned and its name resolves
C8_Witness ==
    /\ raised = "KeyError"
    /\ Interned("A")
    /\ ~Interned("B")
    /\ type_loader(StrDecl("anon.A"), collected_types, vocab).ok

WrapperAgain ==
    /\ memo # <<>>
    /\ memo[1].call.op # "type_loader"
    /\ memo[1].later # <<>>

\* the parameters of a wrapper call that the interned name is to depend on: the
\* base descriptor and the wrapper's own parameters, not the field
WrapperKey(call) ==
    IF call.op = "idmap_loader"
    THEN <<call.inner, call.map_subject, call.map_predicate>>
    ELSE IF call.op = "uri_loader"
    THEN <<call.inner, StrBool(call.scoped_id), StrBool(call.vocab_term),
           call.ref_scope>>
    ELSE IF call.op = "typedsl_loader"
    THEN <<call.inner, call.ref_scope>>
    ELSE <<call.inner>>

\* C10 (wrapper keying): two calls of one wrapper with the same base and the
\* same parameters yield the same name, two calls that differ in the base or a
\* parameter yield different names, and a call never gets back a loader with a
\* constructor expression other than the one it asked for.
C10_WrapperKeying ==
    WrapperAgain =>
        LET m == memo[1]
            l == m.later[1]
        IN /\ WrapperKey(l.call) = WrapperKey(m.call) => l.name = m.name
           /\ WrapperKey(l.call) # WrapperKey(m.call) => l.name # m.name
           /\ l.init = l.asked

(***************************************************************************)
(* The record emitter.  What is written to self.out and to the serializer  *)
(* is kept as a sequence of statements, one record per block of generated  *)
(* text, carrying the values that were formatted into the block.           *)
(***************************************************************************)
InSeq(x, sq) == \E i \in 1..Len(sq) : sq[i] = x

safe_names(names) == [i \in 1..Len(names) |-> safe_name(names[i])]

begin_class_out(classname, extends, doc, abstract, field_names, optional_fields) ==
    LET cn == safe_name(classname)
        ext == IF Len(extends) > 0 THEN Join(", ", safe_names(extends)) ELSE "Savable"
        required_field_names == SelectSeq(field_names, LAMBDA f : f \notin optional_fields)
        optional_field_names == SelectSeq(field_names, LAMBDA f : f \in optional_fields)
        not_class(fs) == SelectSeq(fs, LAMBDA f : f # "class")
    IN <<[op |-> "class", classname |-> cn, ext |-> ext]>>
           \o (IF doc # "" THEN <<[op |-> "doc", text |-> doc]>> ELSE <<>>)
           \o (IF abstract
               THEN <<[op |-> "pass"]>>
               ELSE <<[op |-> "__init__",
                       required |-> safe_names(not_class(required_field_names)),
                       optional |-> safe_names(not_class(optional_field_names))],
                      [op |-> "field_inits", classname |-> cn,
                       fields |-> safe_names(field_names)],
                      [op |-> "fromDoc", classname |-> cn]>>
                        \o (IF InSeq("class", field_names)
                            THEN <<[op |-> "check_class", class_ |-> cn]>>
                            ELSE <<>>))

begin_class_serializer(classname, field_names) ==
    <<[op |-> "save"]>>
        \o (IF InSeq("class", field_names)
            THEN <<[op |-> "r_class", class_ |-> safe_name(classname)]>>
            ELSE <<>>)

\* the driver's calls for one record, in the order the emitter's protocol
\* asks for: begin, the identifier field, the other fields, end
\* the most records the driver generates in one compilation
MaxClasses == 3

Begun(sp) == [begun |-> TRUE, spec |-> sp, id_declared |-> FALSE, next |-> 1,
              ended |-> FALSE,
              done |-> IF cls.begun THEN Append(cls.done, cls.spec) ELSE <<>>]

other_fields(sp) == SelectSeq(sp.field_names, LAMBDA f : f # sp.idfield)

BeginClass(classname, extends, doc, abstract, field_names, id, optional_fields) ==
    /\ pc = "open"
    /\ ~cls.begun \/ (cls.ended /\ Len(cls.done) + 1 < MaxClasses)
    /\ out' = out \o begin_class_out(classname, extends, doc, abstract, field_names,
                                      optional_fields)
    /\ current_class_is_abstract' = abstract
    /\ serializer' = IF abstract THEN <<>>
                     ELSE begin_class_serializer(classname, field_names)
    /\ idfield' = IF abstract THEN idfield ELSE id
    /\ cls' = Begun([classname |-> classname, abstract |-> abstract,
                     field_names |-> field_names, idfield |-> id,
                     optional_fields |-> optional_fields, subscope |-> <<>>])
    /\ UNCHANGED <<pc, raised, catalogVars, runVars>>

declare_field_out(name, fieldtype, optional) ==
    <<[op |-> "load_field", optional |-> optional, safename |-> safe_name(name),
       fieldname |-> shortname(name), fieldtype |-> fieldtype.name]>>

declare_field_serializer(name, fieldtype, idf) ==
    LET baseurl == IF name = idf \/ idf = "" THEN "base_url"
                   ELSE "self." \o safe_name(idf)
    IN IF fieldtype.is_uri
       THEN <<[op |-> "save_relative_uri", safename |-> safe_name(name),
               fieldname |-> shortname(name), baseurl |-> baseurl,
               scoped_id |-> StrBool(fieldtype.scoped_id),
               ref_scope |-> StrOptInt(fieldtype.ref_scope)]>>
       ELSE <<[op |-> "save_field", safename |-> safe_name(name),
               fieldname |-> shortname(name), baseurl |-> baseurl]>>

declare_field_in_abstract_too(abstract, idf, name, fieldtype, optional) ==
    IF shortname(name) = "class"
    THEN [out |-> <<>>, serializer |-> <<>>]
    ELSE [out |-> declare_field_out(name, fieldtype, optional),
          serializer |-> declare_field_serializer(name, fieldtype, idf)]

\* what declare_field appends to out and to the serializer
declare_field(abstract, idf, name, fieldtype, optional) ==
    IF abstract \/ shortname(name) = "class"
    THEN [out |-> <<>>, serializer |-> <<>>]
    ELSE [out |-> declare_field_out(name, fieldtype, optional),
          serializer |-> declare_field_serializer(name, fieldtype, idf)]

DeclareField(name, fieldtype, doc, optional) ==
    LET w == declare_field(current_class_is_abstract, idfield, name, fieldtype, optional)
    IN /\ cls.begun /\ ~cls.ended
       /\ cls.spec.idfield # "" => cls.id_declared
       /\ cls.next <= Len(other_fields(cls.spec))
       /\ name = other_fields(cls.spec)[cls.next]
       /\ optional = (name \in cls.spec.optional_fields)
       /\ out' = out \o w.out
       /\ serializer' = serializer \o w.serializer
       /\ cls' = [cls EXCEPT !.next = @ + 1]
       /\ UNCHANGED <<current_class_is_abstract, idfield, pc, raised, catalogVars, runVars>>

id_default_rebases_always(name, optional, subscope) ==
    LET opt == IF optional
               THEN [do |-> "uuid4", safename |-> safe_name(name)]
               ELSE [do |-> "raise", fieldname |-> shortname(name)]
        scoped == IF Len(subscope) > 0 THEN name \o subscope[1] ELSE name
    IN <<[op |-> "id_default", safename |-> safe_name(scoped), opt |-> opt,
          rebase |-> "always"]>>

\* the identifier block declare_id_field writes after the field's load; the
\* statement rebases (baseuri = <identifier>) only "if not __original_..._is_none"
id_default(name, optional, subscope) ==
    LET opt == IF optional
               THEN [do |-> "uuid4", safename |-> safe_name(name)]
               ELSE [do |-> "raise", fieldname |-> shortname(name)]
        scoped == IF Len(subscope) > 0 THEN name \o subscope[1] ELSE name
    IN <<[op |-> "id_default", safename |-> safe_name(scoped), opt |-> opt,
          rebase |-> "if not original is none"]>>

DeclareIdField(name, fieldtype, doc, optional, subscope) ==
    /\ cls.begun /\ ~cls.ended /\ ~cls.id_declared
    /\ name = cls.spec.idfield /\ name # ""
    /\ optional = (name \in cls.spec.optional_fields)
    /\ IF current_class_is_abstract
       THEN UNCHANGED <<out, serializer>>
       ELSE LET w == declare_field(current_class_is_abstract, idfield, name, fieldtype, TRUE)
            IN /\ out' = out \o w.out \o id_default(name, optional, subscope)
               /\ serializer' = serializer \o w.serializer
    /\ cls' = [cls EXCEPT !.id_declared = TRUE, !.spec.subscope = subscope]
    /\ UNCHANGED <<current_class_is_abstract, idfield, pc, raised, catalogVars, runVars>>

end_class_out(classname, field_names) ==
    <<[op |-> "unknown_fields", attrstr |-> field_names],
      [op |-> "raise_if_errors", class_ |-> safe_name(classname)]>>

end_class_serializer(field_names) ==
    <<[op |-> "top"], [op |-> "return_r"], [op |-> "attrs", names |-> field_names]>>

EndClass(classname, field_names) ==
    /\ cls.begun /\ ~cls.ended
    /\ cls.spec.idfield # "" => cls.id_declared
    /\ cls.next > Len(other_fields(cls.spec))
    /\ classname = cls.spec.classname /\ field_names = cls.spec.field_names
    /\ IF current_class_is_abstract
       THEN UNCHANGED <<out, serializer>>
       ELSE /\ serializer' = serializer \o end_class_serializer(field_names)
            /\ out' = out \o end_class_out(classname, field_names)
                          \o <<[op |-> "return_cls",
                                args |-> safe_names(SelectSeq(field_names,
                                                              LAMBDA f : f # "class"))]>>
                          \o serializer'
    /\ cls' = [cls EXCEPT !.ended = TRUE]
    /\ UNCHANGED <<current_class_is_abstract, idfield, pc, raised, catalogVars, runVars>>

(***************************************************************************)
(* Running the generated fromDoc.  A document gives, for every declared    *)
(* field, whether the key is absent, holds a value its loader accepts      *)
(* ("good") or one it rejects ("bad"); the value of its "class" key; and   *)
(* the undeclared keys it holds, in document order.  load_field,           *)
(* expand_url and uuid4 belong to the runtime: a loader accepts or rejects, *)
(* expand_url expands a known prefix, and uuid4 never repeats.             *)
(***************************************************************************)
HasColon(k) == k \in {"ex:p", "ex:q"}

expand_url(k) ==
    CASE k = "ex:p" -> "http://example.com/p"
      [] k = "ex:q" -> "http://example.com/q"
      [] OTHER -> k

AcceptsNone(fieldtype) == fieldtype \in {"None_type"}

Loaded(doc, fieldname) == "value of " \o fieldname

Bound(env, v) == v \in DOMAIN env.locals

Assign(env, v, x) ==
    [env EXCEPT !.locals = [w \in DOMAIN env.locals \cup {v} |->
                               IF w = v THEN x ELSE env.locals[w]]]

Raise(env, exc, msg) == [env EXCEPT !.exc = exc, !.msg = msg]

exec_check_class(st, env, doc) ==
    IF doc.class # <<st.class_>>
    THEN Raise(env, "ValidationException", "Not a " \o st.class_)
    ELSE env

exec_load_field(st, env, doc) ==
    LET val == doc.vals[st.fieldname]
        tried == [env EXCEPT !.loads = Append(@, [fieldname |-> st.fieldname,
                                                  baseuri |-> env.baseuri])]
        failed == [tried EXCEPT !.errors =
                      Append(@, [error |-> "field", key |-> st.fieldname])]
    IN IF st.optional /\ val = "absent"
       THEN Assign(env, st.safename, <<>>)
       ELSE IF val = "good"
       THEN Assign(tried, st.safename, <<Loaded(doc, st.fieldname)>>)
       ELSE IF val = "absent" /\ AcceptsNone(st.fieldtype)
       THEN Assign(tried, st.safename, <<>>)
       ELSE failed

exec_id_default(st, env, docRoot) ==
    IF ~Bound(env, st.safename)
    THEN Raise(env, "UnboundLocalError", st.safename)
    ELSE LET original_is_none == env.locals[st.safename] = <<>>
             defaulted ==
                 IF ~original_is_none THEN env
                 ELSE IF docRoot # <<>> THEN Assign(env, st.safename, docRoot)
                 ELSE IF st.opt.do = "uuid4"
                 THEN [Assign(env, st.opt.safename,
                              <<"_:" \o ToString(env.uuids + 1)>>)
                          EXCEPT !.uuids = @ + 1]
                 ELSE Raise(env, "ValidationException", "Missing " \o st.opt.fieldname)
         IN IF defaulted.exc # "" THEN defaulted
            ELSE IF ~original_is_none \/ st.rebase = "always"
            THEN [defaulted EXCEPT !.baseuri = defaulted.locals[st.safename][1]]
            ELSE defaulted

RECURSIVE exec_unknown_fields(_, _, _)
exec_unknown_fields(keys, attrs, env) ==
    IF Len(keys) = 0 THEN env
    ELSE LET k == keys[1]
         IN IF k \in attrs
            THEN exec_unknown_fields(Tail(keys), attrs, env)
            ELSE IF HasColon(k)
            THEN exec_unknown_fields(Tail(keys), attrs,
                     [env EXCEPT !.extension_fields = @ \cup {expand_url(k)}])
            ELSE [env EXCEPT !.errors = Append(@, [error |-> "unexpected", key |-> k])]

exec_raise_if_errors(st, env) ==
    IF Len(env.errors) > 0
    THEN Raise(env, "ValidationException", "Trying '" \o st.class_ \o "'")
    ELSE env

exec_return_cls(st, env) ==
    IF \E i \in 1..Len(st.args) : ~Bound(env, st.args[i])
    THEN Raise(env, "UnboundLocalError",
               st.args[CHOOSE i \in 1..Len(st.args) :
                          /\ ~Bound(env, st.args[i])
                          /\ \A j \in 1..(i - 1) : Bound(env, st.args[j])])
    ELSE [env EXCEPT !.returned = TRUE]

\* the keys of _doc, in document order
DocKeys(doc) ==
    (IF doc.class # <<>> THEN <<"class">> ELSE <<>>)
        \o SelectSeq(doc.order, LAMBDA f : doc.vals[f] # "absent")
        \o doc.extras

exec(st, env, doc, docRoot, attrs) ==
    CASE st.op = "check_class" -> exec_check_class(st, env, doc)
      [] st.op = "load_field" -> exec_load_field(st, env, doc)
      [] st.op = "id_default" -> exec_id_default(st, env, docRoot)
      [] st.op = "unknown_fields" -> exec_unknown_fields(DocKeys(doc), attrs, env)
      [] st.op = "raise_if_errors" -> exec_raise_if_errors(st, env)
      [] st.op = "return_cls" -> exec_return_cls(st, env)
      [] OTHER -> env

RECURSIVE exec_all(_, _, _, _, _)
exec_all(code, env, doc, docRoot, attrs) ==
    IF Len(code) = 0 \/ env.exc # "" \/ env.returned THEN env
    ELSE exec_all(Tail(code), exec(code[1], env, doc, docRoot, attrs), doc, docRoot, attrs)

\* the body of the last fromDoc in the output, and that class's attrs
LastIndex(sq, op) == CHOOSE i \in 1..Len(sq) :
                        /\ sq[i].op = op
                        /\ \A j \in (i + 1)..Len(sq) : sq[j].op # op

FromDocBody(o) == SubSeq(o, LastIndex(o, "fromDoc") + 1, LastIndex(o, "return_cls"))

ClassAttrs(o) == Range(o[LastIndex(o, "attrs")].names)

fromDoc(o, doc, baseuri, docRoot, n) ==
    exec_all(FromDocBody(o),
             [locals |-> <<>>, errors |-> <<>>, baseuri |-> baseuri,
              extension_fields |-> {}, loads |-> <<>>, uuids |-> n, exc |-> "",
              msg |-> "", returned |-> FALSE],
             doc, docRoot, ClassAttrs(o))

(***************************************************************************)
(* The records the driver generates and the documents they are run on.     *)
(***************************************************************************)
MaxValidations == 2

Ambient == "file:///doc"

RecordSpecs ==
    {[classname |-> "R", abstract |-> ab,
      field_names |-> c \o i.names \o <<"a", "in">>,
      idfield |-> i.idfield,
      optional_fields |-> i.optional \cup {"in"}] :
        ab \in BOOLEAN,
        c \in {<<>>, <<"class">>},
        i \in {[names |-> <<>>, idfield |-> "", optional |-> {}],
               [names |-> <<"id">>, idfield |-> "id", optional |-> {}],
               [names |-> <<"id">>, idfield |-> "id", optional |-> {"id"}]}}

Subscopes == {<<>>, <<"sub">>}

id_type_def == uri_type_def(string_type_def, TRUE, FALSE, <<>>)

Extras == {<<>>, <<"x">>, <<"ex:p">>, <<"x", "y">>, <<"ex:p", "x">>,
           <<"x", "ex:p">>, <<"ex:p", "ex:q">>}

Docs(sp) ==
    LET fields == SelectSeq(sp.field_names, LAMBDA f : f # "class")
    IN {[class |-> c, order |-> fields, vals |-> v, extras |-> e] :
           c \in IF InSeq("class", sp.field_names) THEN {<<"R">>, <<"S">>} ELSE {<<>>},
           v \in [Range(fields) -> {"absent", "good", "bad"}],
           e \in Extras}

DocRoots == {<<>>, <<"file:///root">>}

\* one call of the generated R.fromDoc(doc, baseuri, loadingOptions, docRoot),
\* R being the one record of the compilation; a later call validates the same
\* document again
FromDoc(doc, baseuri, docRoot) ==
    /\ cls.begun /\ Len(cls.done) = 0 /\ cls.ended /\ ~current_class_is_abstract
    /\ IF rt.ran
       THEN rt.n < MaxValidations /\ doc = rt.doc /\ docRoot = rt.docRoot
       ELSE TRUE
    /\ LET env == fromDoc(out, doc, baseuri, docRoot, uuids)
       IN /\ rt' = [ran |-> TRUE, n |-> IF rt.ran THEN rt.n + 1 ELSE 1,
                    doc |-> doc, baseuri |-> baseuri, docRoot |-> docRoot,
                    exc |-> env.exc, msg |-> env.msg, errors |-> env.errors,
                    locals |-> env.locals,
                    extension_fields |-> env.extension_fields,
                    loads |-> env.loads, returned |-> env.returned,
                    previous |-> IF rt.ran THEN <<rt.locals>> ELSE <<>>]
          /\ uuids' = env.uuids
    /\ UNCHANGED <<pc, out, raised, catalogVars, emitterVars>>

DocNext ==
    \/ Prologue
    \/ \E sp \in RecordSpecs :
           /\ ~cls.begun
           /\ BeginClass(sp.classname, <<>>, "", sp.abstract, sp.field_names,
                         sp.idfield, sp.optional_fields)
    \/ \E optional \in BOOLEAN, subscope \in Subscopes :
           DeclareIdField(cls.spec.idfield, id_type_def, "", optional, subscope)
    \/ \E name \in {"class", "a", "in"}, optional \in BOOLEAN :
           DeclareField(name, string_type_def, "", optional)
    \/ EndClass(cls.spec.classname, cls.spec.field_names)
    \/ \E doc \in Docs(cls.spec), docRoot \in DocRoots : FromDoc(doc, Ambient, docRoot)

DocSpec == Init /\ [][DocNext]_vars

(***************************************************************************)
(* Properties of the generated fromDoc.                                    *)
(***************************************************************************)
HasIdField == cls.spec.idfield # ""

IdSafe == safe_name(cls.spec.idfield)

IdOptional == cls.spec.idfield \in cls.spec.optional_fields

Subscoped == cls.spec.subscope # <<>>

ClassOk == InSeq("class", cls.spec.field_names) => rt.doc.class = <<cls.spec.classname>>

IdIs(v) == HasIdField /\ rt.doc.vals[cls.spec.idfield] = v

MissingId == IdIs("absent") /\ rt.docRoot = <<>> /\ ~IdOptional

\* a declared field whose value does not load: a value the loader rejects, or
\* a required field that is not in the document
Invalid(f) ==
    \/ rt.doc.vals[f] = "bad"
    \/ rt.doc.vals[f] = "absent" /\ f # cls.spec.idfield
           /\ f \notin cls.spec.optional_fields

InvalidFields == SelectSeq(rt.doc.order, Invalid)

BareUnknown == SelectSeq(rt.doc.extras, LAMBDA k : ~HasColon(k))

Namespaced == SelectSeq(rt.doc.extras, HasColon)

Causes(kind) ==
    LET es == SelectSeq(rt.errors, LAMBDA e : e.error = kind)
    IN [i \in 1..Len(es) |-> es[i].key]

Aggregate == rt.exc = "ValidationException"
                 /\ rt.msg = "Trying '" \o cls.spec.classname \o "'"

LaterLoads == SelectSeq(rt.loads, LAMBDA l : l.fieldname # cls.spec.idfield)

\* C3 (validation completeness): a document whose class matches, that has its
\* identifier or can default it, and that has no undeclared bare key, but has
\* N >= 1 declared fields that fail to load, fails with one aggregate failure
\* whose causes are exactly those N fields, in declaration order.
C3_ValidationCompleteness ==
    (rt.ran /\ ClassOk /\ ~Subscoped /\ ~MissingId /\ Len(BareUnknown) = 0
            /\ Len(InvalidFields) >= 1) =>
        /\ Aggregate
        /\ Len(rt.errors) = Len(InvalidFields)
        /\ Causes("field") = InvalidFields

\* C4 (unknown-field handling): when fromDoc reaches the loop over the
\* document's keys, every undeclared key with a ':' is captured as an extension
\* field and every undeclared key without one adds its own error; a document
\* with only namespaced undeclared keys and no other error validates.
C4_UnknownFieldHandling ==
    (rt.ran /\ (rt.returned \/ Aggregate)) =>
        /\ Causes("unexpected") = BareUnknown
        /\ rt.extension_fields = {expand_url(k) : k \in Range(Namespaced)}
        /\ (Len(BareUnknown) = 0 /\ Len(InvalidFields) = 0) => rt.returned

\* C5 (identifier defaulting): after the class check, an identifier found in
\* the document keeps its loaded value; an absent one becomes the document
\* root if there is one, else a synthesized identifier that differs from the
\* one of the previous call if the field is optional, else the call fails with
\* "Missing <field>".
C5_IdentifierDefaulting ==
    (rt.ran /\ HasIdField /\ ClassOk) =>
        /\ IdIs("good") =>
              /\ rt.exc # "UnboundLocalError"
              /\ Bound(rt, IdSafe)
              /\ rt.locals[IdSafe] = <<Loaded(rt.doc, cls.spec.idfield)>>
        /\ (IdIs("absent") /\ rt.docRoot # <<>>) =>
              /\ rt.exc # "UnboundLocalError"
              /\ rt.locals[IdSafe] = rt.docRoot
        /\ (IdIs("absent") /\ rt.docRoot = <<>> /\ IdOptional) =>
              /\ rt.exc # "UnboundLocalError"
              /\ rt.locals[IdSafe] # <<>>
              /\ rt.previous # <<>> => rt.previous[1][IdSafe] # rt.locals[IdSafe]
        /\ MissingId =>
              /\ rt.exc = "ValidationException"
              /\ rt.msg = "Missing " \o cls.spec.idfield

\* C6 (runtime error accumulation): after the class check, with an identifier
\* field that loads if it is present, a document with a missing required
\* identifier, invalid fields or an undeclared bare key fails with one
\* aggregate failure; its causes hold the missing identifier, every invalid
\* field, and an unexpected-field error.
C6_RuntimeErrorAccumulation ==
    (rt.ran /\ ClassOk /\ ~Subscoped /\ ~IdIs("bad")
            /\ (MissingId \/ Len(InvalidFields) >= 1 \/ Len(BareUnknown) >= 1)) =>
        /\ Aggregate
        /\ MissingId => Len(Causes("missing")) = 1
        /\ Causes("field") = InvalidFields
        /\ Len(BareUnknown) >= 1 => Len(Causes("unexpected")) >= 1

\* C9 as stated (base-URI propagation): in a record with an identifier field,
\* every field loaded after the identifier was assigned, however it was
\* assigned, is loaded with the identifier as its base URI.
C9_BaseUriIsIdentifier ==
    (rt.ran /\ HasIdField) =>
        \A i \in 1..Len(LaterLoads) :
            /\ Bound(rt, IdSafe)
            /\ <<LaterLoads[i].baseuri>> = rt.locals[IdSafe]

\* C9 as amended: every field loaded after the identifier block is loaded with
\* the identifier as its base URI if the identifier was loaded from the
\* document, and with the base URI passed to fromDoc if the identifier was
\* substituted from the document root or synthesized.
C9_BaseUriIsLoadedIdentifier ==
    (rt.ran /\ HasIdField) =>
        \A i \in 1..Len(LaterLoads) :
            LaterLoads[i].baseuri =
                IF IdIs("good") THEN Loaded(rt.doc, cls.spec.idfield) ELSE rt.baseuri

\* witness of C9: the identifier was loaded from the document, two more fields
\* were loaded after it with another base URI than the one passed in, and the
\* call returned the record
C9_Witness ==
    /\ rt.ran /\ HasIdField /\ IdIs("good") /\ rt.returned
    /\ Len(LaterLoads) = 2
    /\ \A i \in 1..2 : LaterLoads[i].baseuri # rt.baseuri

(***************************************************************************)
(* Several records in one compilation: the driver generates up to          *)
(* MaxClasses records, abstract or not, one after the other, with the one  *)
(* emitter whose serializer buffer, idfield and abstract flag they share.  *)
(***************************************************************************)
EmitRecords ==
    {[classname |-> r.classname, abstract |-> ab, field_names |-> r.field_names,
      idfield |-> r.idfield, optional_fields |-> r.optional_fields] :
        ab \in BOOLEAN,
        r \in {[classname |-> "R", field_names |-> <<"class", "id", "a", "in">>,
                idfield |-> "id", optional_fields |-> {"in"}],
               [classname |-> "S", field_names |-> <<"name", "b">>,
                idfield |-> "name", optional_fields |-> {"name"}],
               [classname |-> "T", field_names |-> <<"b">>,
                idfield |-> "", optional_fields |-> {}]}}

EmitNext ==
    \/ Prologue
    \/ \E sp \in EmitRecords :
           BeginClass(sp.classname, <<>>, "", sp.abstract, sp.field_names,
                      sp.idfield, sp.optional_fields)
    \/ \E optional \in BOOLEAN, subscope \in Subscopes :
           DeclareIdField(cls.spec.idfield, id_type_def, "", optional, subscope)
    \/ \E name \in {"class", "a", "in", "b"}, optional \in BOOLEAN :
           DeclareField(name, string_type_def, "", optional)
    \/ EndClass(cls.spec.classname, cls.spec.field_names)

EmitSpec == Init /\ [][EmitNext]_vars

(***************************************************************************)
(* Properties of the records' output.                                      *)
(***************************************************************************)
\* what has been written since the header of the current record
CurrentOut == SubSeq(out, LastIndex(out, "class"), Len(out))

\* what the first k fields after the identifier write for a record of their
\* own, by themselves
RECURSIVE OwnFields(_, _)
OwnFields(c, k) ==
    IF k = 0 THEN [out |-> <<>>, serializer |-> <<>>]
    ELSE LET f == other_fields(c)[k]
             w == declare_field(FALSE, c.idfield, f, string_type_def,
                                f \in c.optional_fields)
             before == OwnFields(c, k - 1)
         IN [out |-> before.out \o w.out,
             serializer |-> before.serializer \o w.serializer]

OwnId(c) ==
    LET w == declare_field(FALSE, c.idfield, c.idfield, id_type_def, TRUE)
    IN [out |-> w.out \o id_default(c.idfield, c.idfield \in c.optional_fields,
                                    c.subscope),
        serializer |-> w.serializer]

\* the serializer buffer of a non-abstract record that is `at` in its calls
OwnSerializer(at) ==
    begin_class_serializer(at.spec.classname, at.spec.field_names)
        \o (IF at.id_declared THEN OwnId(at.spec).serializer ELSE <<>>)
        \o OwnFields(at.spec, at.next - 1).serializer
        \o (IF at.ended THEN end_class_serializer(at.spec.field_names) ELSE <<>>)

\* the output of a non-abstract record that is `at` in its calls
OwnOut(at) ==
    begin_class_out(at.spec.classname, <<>>, "", FALSE, at.spec.field_names,
                    at.spec.optional_fields)
        \o (IF at.id_declared THEN OwnId(at.spec).out ELSE <<>>)
        \o OwnFields(at.spec, at.next - 1).out
        \o (IF at.ended
            THEN end_class_out(at.spec.classname, at.spec.field_names)
                     \o <<[op |-> "return_cls",
                           args |-> safe_names(SelectSeq(at.spec.field_names,
                                                         LAMBDA f : f # "class"))]>>
                     \o OwnSerializer(at)
            ELSE <<>>)

AbstractHeader(c) ==
    begin_class_out(c.classname, <<>>, "", TRUE, c.field_names, c.optional_fields)

\* C11 (abstract records stop at the header): whatever records were generated
\* before, an abstract record's output is its header alone, and stays so after
\* every declare_id_field, declare_field and end_class call for it, with the
\* serializer buffer empty; and a record that is not abstract has its own
\* identifier field name in idfield, and a serializer buffer and an output that
\* hold exactly the statements of its own calls, from an empty buffer on.
C11_AbstractStopsAtHeader ==
    cls.begun =>
        IF cls.spec.abstract
        THEN /\ current_class_is_abstract
             /\ CurrentOut = AbstractHeader(cls.spec)
             /\ serializer = <<>>
        ELSE /\ ~current_class_is_abstract
             /\ idfield = cls.spec.idfield
             /\ serializer = OwnSerializer(cls)
             /\ CurrentOut = OwnOut(cls)

\* witness of C11: a record with an identifier field was generated, then an
\* abstract record with all its calls, and then a record that is not abstract,
\* with another identifier field or none, up to its end_class
C11_Witness ==
    /\ cls.begun /\ cls.ended /\ ~cls.spec.abstract
    /\ Len(cls.done) = 2
    /\ ~cls.done[1].abstract /\ cls.done[1].idfield # ""
    /\ cls.done[2].abstract /\ cls.done[2].idfield # ""
    /\ cls.spec.idfield # cls.done[1].idfield
====
